---- MODULE Spec2Model ----
(***************************************************************************)
(* Model of the report generation pipeline of the grafana reporter:        *)
(* ServeReportHandler.ServeHTTP (cmd/grafana-reporter/handler.go) driving   *)
(* grafanaReport.Generate / Clean (package report) and                      *)
(* writeupClient.GetWriteup (grafana/writeup.go).                           *)
(*                                                                         *)
(* One request is modelled.  The main goroutine's position is hpc; the     *)
(* worker goroutines of renderPNGsParallel are counted per position.        *)
(* External collaborators (the grafana client, the database, the   *)
(* filesystem, the LaTeX toolchain, the HTTP response writer) answer        *)
(* nondeterministically with success or failure.                            *)
(***************************************************************************)
EXTENDS Integers, Sequences, FiniteSets, TLC

\* Largest number of panels of a dashboard.
MaxPanels == 4
\* Largest number of sections the narrative query returns.
MaxSections == 1
\* Largest number of Clean calls made by a caller of the Report interface.
MaxCleanCalls == 2

\* one worker more than the pool is meant to have
workersOneMore == 5 + 1

\* workers := 5
workers == 5

\* The two combined outputs a compiler pass can produce, and the two
\* contents the artifact can have.
Outputs == {"X", "Y"}
PdfBytes == {"pdfA", "pdfB"}

\* error values: nil, or the stage that built it with its detail
Nil == [stage |-> "nil", panel |-> 0, detail |-> ""]
Err(stage, panel, detail) == [stage |-> stage, panel |-> panel, detail |-> detail]

\* handles: a nil *os.File, or an open file on the artifact
NilFile == [open |-> FALSE, bytes |-> ""]
OpenFile(bytes) == [open |-> TRUE, bytes |-> bytes]

VARIABLES
    hpc,          \* position of the request's goroutine in ServeHTTP / Generate
    useXelatex,   \* rep.useXelatex
    idsEmpty,     \* len(c.ids) == 0
    remote,       \* the panel ids of the dashboard as Grafana holds it
    dash,         \* dash.Panels, the panel ids in dashboard order
    writeups,     \* len(writeups.Sections) held by Generate
    dbCalls,      \* connections opened to the narrative database
    panels,       \* the job channel of renderPNGsParallel
    enq,          \* panels the producer loop has sent to the job channel
    panelsClosed, \* close(panels) has run
    spawned,      \* worker goroutines started by renderPNGsParallel
    errs,         \* the error channel of renderPNGsParallel
    errsClosed,   \* close(errs) has run
    ranging,      \* workers at "for p := range panels"
    rendering,    \* per panel, the workers inside renderPNG(p)
    sending,      \* per panel, the workers at "errs <- err" with p's error
    wgCount,      \* the WaitGroup counter
    inflight,     \* renderPNG calls entered and not yet returned
    taken,        \* how often each panel was received from the job channel
    fetched,      \* some GetPanelPng call of renderPNG returned nil
    failed,       \* panels whose renderPNG returned an error
    written,      \* panels whose renderPNG returned nil
    rootExists,   \* rep.tmpDir exists
    imgDirExists, \* rep.imgDirPath() exists
    imgFiles,     \* names of the image files written in full
    imgPartial,   \* an image file was created and its copy failed
    texExists,    \* rep.texPath() exists
    texSections,  \* len(Writeup.Sections) of the data the template was given
    pdfFile,      \* contents of rep.pdfPath() ("" when absent)
    calls,        \* the stages Generate invoked, in order
    results,      \* how each stage that returned ended: "ok" or "err"
    cleanLogs,    \* "Error cleaning up tmp dir" lines logged
    outPre,       \* combined output of the first compiler pass
    outFinal,     \* combined output of the second compiler pass
    genPdf,       \* the handle Generate returned
    genErr,       \* the error Generate returned
    opened,       \* the artifact was opened by runLaTeX
    status,       \* HTTP status written (0: none, 200 on first body write)
    body,         \* bytes copied to the response
    closeCalls,   \* calls of file.Close
    cleanCalls    \* calls of rep.Clean

vars == <<hpc, useXelatex, idsEmpty, remote, dash, writeups, dbCalls, panels, enq,
          panelsClosed, spawned, errs, errsClosed, ranging, rendering, sending, wgCount,
          inflight, taken, fetched, failed, written, rootExists, imgDirExists, imgFiles,
          imgPartial, texExists, texSections, pdfFile, calls, results,
          cleanLogs, outPre, outFinal, genPdf, genErr, opened, status, body, closeCalls, cleanCalls>>


\* A dashboard of n panels; a panel is identified by its id, so the ids of
\* one dashboard are distinct.
Dashboard(n) == [i \in 1 .. n |-> i]

PanelIds == {remote[i] : i \in DOMAIN remote}

\* The state after newReport, for a request with the given inputs: tmpDir is
\* a fresh uuid directory, nothing of it exists yet.
InitWith(n, xelatex, noIds) ==
    /\ hpc = "GetDashboard"
    /\ useXelatex = xelatex
    /\ idsEmpty = noIds
    /\ remote = Dashboard(n)
    /\ dash = <<>>
    /\ writeups = 0
    /\ dbCalls = 0
    /\ panels = <<>>
    /\ enq = 0
    /\ panelsClosed = FALSE
    /\ spawned = 0
    /\ errs = <<>>
    /\ errsClosed = FALSE
    /\ ranging = 0
    /\ rendering = [p \in 1 .. n |-> 0]
    /\ sending = [p \in 1 .. n |-> 0]
    /\ wgCount = 0
    /\ inflight = 0
    /\ taken = [p \in 1 .. n |-> 0]
    /\ fetched = FALSE
    /\ failed = {}
    /\ written = {}
    /\ rootExists = FALSE
    /\ imgDirExists = FALSE
    /\ imgFiles = {}
    /\ imgPartial = FALSE
    /\ texExists = FALSE
    /\ texSections = 0
    /\ pdfFile = ""
    /\ calls = <<>>
    /\ results = <<>>
    /\ cleanLogs = 0
    /\ outPre = ""
    /\ outFinal = ""
    /\ genPdf = NilFile
    /\ genErr = Nil
    /\ opened = FALSE
    /\ status = 0
    /\ body = ""
    /\ closeCalls = 0
    /\ cleanCalls = 0

Init ==
    \E n \in 0 .. MaxPanels, xelatex \in BOOLEAN, noIds \in BOOLEAN :
        InitWith(n, xelatex, noIds)

\* Dashboards of up to one panel more than there are workers, for the
\* default toolchain and no narrative.
InitWide == \E n \in 0 .. workers + 1 : InitWith(n, FALSE, TRUE)

-----------------------------------------------------------------------------
(* Generate: the stages up to the image pool                                *)

\* how a stage that returned err ended
Result(err) == IF err # Nil THEN "err" ELSE "ok"

\* Generate returns (pdf, err) to ServeHTTP
Return(pdf, err) ==
    /\ genPdf' = pdf
    /\ genErr' = err
    /\ hpc' = "GenerateReturned"

\* if err != nil { return } after GetDashboard
DashboardChecked(err) == IF err # Nil THEN "return" ELSE "GetWriteup"

\* rep.gClient.GetDashboard(rep.dashName): the client answers with a
\* dashboard Grafana holds or with an error
GetDashboard ==
    /\ hpc = "GetDashboard"
    /\ calls' = Append(calls, "GetDashboard")
    /\ \E ok \in BOOLEAN :
          LET err == IF ok THEN Nil ELSE Err("dashboard", 0, "") IN
          /\ results' = Append(results, Result(err))
          /\ IF DashboardChecked(err) = "return"
             THEN /\ Return(NilFile, Err("dashboard", 0, ""))
                  /\ dash' = dash
             ELSE /\ dash' = remote
                  /\ hpc' = "GetWriteup"
                  /\ UNCHANGED <<genPdf, genErr>>
    /\ UNCHANGED <<useXelatex, idsEmpty, remote, writeups, dbCalls, panels,
                   enq, panelsClosed, spawned, errs, errsClosed, ranging,
                   rendering, sending, wgCount, inflight, taken, fetched,
                   failed, written, rootExists, imgDirExists, imgFiles,
                   imgPartial, texExists, texSections, pdfFile, cleanLogs,
                   outPre, outFinal, opened, status, body, closeCalls,
                   cleanCalls>>

\* a GetWriteup without the test of len(c.ids): it always goes to the
\* database
GetWriteupResultNoGuard(noIds, outcome, rows) ==
    IF outcome = "ok" THEN [sections |-> rows, err |-> Nil, db |-> 1]
    ELSE [sections |-> 0, err |-> Err("writeup", 0, outcome), db |-> 1]

\* writeupClient.GetWriteup: with no ids it returns at once; otherwise it
\* opens the database, queries, and scans the rows
GetWriteupResult(noIds, outcome, rows) ==
    IF noIds THEN [sections |-> 0, err |-> Nil, db |-> 0]
    ELSE IF outcome = "ok" THEN [sections |-> rows, err |-> Nil, db |-> 1]
    ELSE [sections |-> 0, err |-> Err("writeup", 0, outcome), db |-> 1]

\* a narrative fetch whose error is not looked at
WriteupCheckedIgnored(err) == "renderPNGsParallel"

\* if err != nil { return } after GetWriteup
WriteupChecked(err) == IF err # Nil THEN "return" ELSE "renderPNGsParallel"

GetWriteup ==
    /\ hpc = "GetWriteup"
    /\ calls' = Append(calls, "GetWriteup")
    /\ \E outcome \in {"ok", "openErr", "queryErr", "scanErr"},
          rows \in 0 .. MaxSections :
          LET r == GetWriteupResult(idsEmpty, outcome, rows) IN
          /\ dbCalls' = dbCalls + r.db
          /\ results' = Append(results, Result(r.err))
          /\ IF WriteupChecked(r.err) = "return"
             THEN /\ Return(NilFile, Err("writeup", 0, r.err.detail))
                  /\ writeups' = writeups
             ELSE /\ writeups' = r.sections
                  /\ hpc' = "renderPNGsParallel"
                  /\ UNCHANGED <<genPdf, genErr>>
    /\ UNCHANGED <<useXelatex, idsEmpty, remote, dash, panels, enq,
                   panelsClosed, spawned, errs, errsClosed, ranging,
                   rendering, sending, wgCount, inflight, taken, fetched,
                   failed, written, rootExists, imgDirExists, imgFiles,
                   imgPartial, texExists, texSections, pdfFile, cleanLogs,
                   outPre, outFinal, opened, status, body, closeCalls,
                   cleanCalls>>

-----------------------------------------------------------------------------
(* renderPNGsParallel and its workers                                       *)

\* a file name that leaves the panel id out
imgFileNameNoId(id) == <<"image", ".png">>

\* fmt.Sprintf("image%d.png", p.Id)
imgFileName(id) == <<"image", id, ".png">>

\* an unbuffered job channel: make(chan grafana.Panel)
panelsCapUnbuffered(n) == 0

\* panels := make(chan grafana.Panel, len(dash.Panels))
panelsCap(n) == n

\* renderPNGsParallel is entered and makes the job channel
MakePanels ==
    /\ hpc = "renderPNGsParallel"
    /\ calls' = Append(calls, "renderPNGsParallel")
    /\ panels' = <<>>
    /\ enq' = 0
    /\ hpc' = "panels <- p"
    /\ UNCHANGED <<useXelatex, idsEmpty, remote, dash, writeups, dbCalls,
                   panelsClosed, spawned, errs, errsClosed, ranging,
                   rendering, sending, wgCount, inflight, taken, fetched,
                   failed, written, rootExists, imgDirExists, imgFiles,
                   imgPartial, texExists, texSections, pdfFile, results,
                   cleanLogs, outPre, outFinal, genPdf, genErr, opened,
                   status, body, closeCalls, cleanCalls>>

\* for _, p := range dash.Panels { panels <- p }: one send, which blocks
\* while the buffer is full
Enqueue ==
    /\ hpc = "panels <- p"
    /\ enq < Len(dash)
    /\ Len(panels) < panelsCap(Len(dash))
    /\ panels' = Append(panels, dash[enq + 1])
    /\ enq' = enq + 1
    /\ UNCHANGED <<hpc, useXelatex, idsEmpty, remote, dash, writeups, dbCalls,
                   panelsClosed, spawned, errs, errsClosed, ranging,
                   rendering, sending, wgCount, inflight, taken, fetched,
                   failed, written, rootExists, imgDirExists, imgFiles,
                   imgPartial, texExists, texSections, pdfFile, calls,
                   results, cleanLogs, outPre, outFinal, genPdf, genErr,
                   opened, status, body, closeCalls, cleanCalls>>

\* close(panels) after the producer loop
ClosePanels ==
    /\ hpc = "panels <- p"
    /\ enq = Len(dash)
    /\ panelsClosed' = TRUE
    /\ hpc' = "go"
    /\ UNCHANGED <<useXelatex, idsEmpty, remote, dash, writeups, dbCalls,
                   panels, enq, spawned, errs, errsClosed, ranging, rendering,
                   sending, wgCount, inflight, taken, fetched, failed,
                   written, rootExists, imgDirExists, imgFiles, imgPartial,
                   texExists, texSections, pdfFile, calls, results, cleanLogs,
                   outPre, outFinal, genPdf, genErr, opened, status, body,
                   closeCalls, cleanCalls>>

\* a pool that starts no worker for a dashboard without panels
spawnCountNoneWhenEmpty(n) == IF n = 0 THEN 0 ELSE workers

\* for i := 0; i < workers; i++ { go func... }: the goroutines started for
\* a dashboard of n panels
spawnCount(n) == workers

\* wg.Add(workers); errs := make(chan error, len(dash.Panels)); the workers
\* are started.  A worker that is started and has not moved yet stands at
\* its range loop, so the loop of go statements is one step
StartPool ==
    /\ hpc = "go"
    /\ wgCount' = spawnCount(Len(dash))
    /\ errs' = <<>>
    /\ spawned' = spawnCount(Len(dash))
    /\ ranging' = spawnCount(Len(dash))
    /\ hpc' = "wg.Wait"
    /\ UNCHANGED <<useXelatex, idsEmpty, remote, dash, writeups, dbCalls,
                   panels, enq, panelsClosed, errsClosed, rendering, sending,
                   inflight, taken, fetched, failed, written, rootExists,
                   imgDirExists, imgFiles, imgPartial, texExists, texSections,
                   pdfFile, calls, results, cleanLogs, outPre, outFinal,
                   genPdf, genErr, opened, status, body, closeCalls,
                   cleanCalls>>

\* for p := range panels: a worker receives a job and enters renderPNG
Receive ==
    /\ ranging > 0
    /\ panels # <<>>
    /\ ranging' = ranging - 1
    /\ rendering' = [rendering EXCEPT ![Head(panels)] = @ + 1]
    /\ panels' = Tail(panels)
    /\ taken' = [taken EXCEPT ![Head(panels)] = @ + 1]
    /\ inflight' = inflight + 1
    /\ UNCHANGED <<hpc, useXelatex, idsEmpty, remote, dash, writeups, dbCalls,
                   enq, panelsClosed, spawned, errs, errsClosed, sending,
                   wgCount, fetched, failed, written, rootExists,
                   imgDirExists, imgFiles, imgPartial, texExists, texSections,
                   pdfFile, calls, results, cleanLogs, outPre, outFinal,
                   genPdf, genErr, opened, status, body, closeCalls,
                   cleanCalls>>

\* for p := range panels: the channel is closed and empty, the worker
\* returns; defer wg.Done()
WorkerExit ==
    /\ ranging > 0
    /\ panels = <<>>
    /\ panelsClosed
    /\ ranging' = ranging - 1
    /\ wgCount' = wgCount - 1
    /\ UNCHANGED <<hpc, useXelatex, idsEmpty, remote, dash, writeups, dbCalls,
                   panels, enq, panelsClosed, spawned, errs, errsClosed,
                   rendering, sending, inflight, taken, fetched, failed,
                   written, rootExists, imgDirExists, imgFiles, imgPartial,
                   texExists, texSections, pdfFile, calls, results, cleanLogs,
                   outPre, outFinal, genPdf, genErr, opened, status, body,
                   closeCalls, cleanCalls>>

\* renderPNG(p): what it leaves on disk and what it returns, by the first
\* call that fails
RenderOutcomes == {"ok", "fetchErr", "mkdirErr", "createErr", "copyErr"}

renderPNGErr(p, outcome) ==
    IF outcome = "ok" THEN Nil ELSE Err("renderPNG", p, outcome)

\* rep.gClient.GetPanelPng returned nil
renderPNGFetch(outcome) == outcome # "fetchErr"

\* an image directory made before the panel is fetched
renderPNGMkdirEager(outcome) == outcome # "mkdirErr"

\* os.MkdirAll(rep.imgDirPath()) was reached and succeeded
renderPNGMkdir(outcome) == outcome \in {"ok", "createErr", "copyErr"}

\* os.Create of the image file was reached and succeeded
renderPNGCreate(outcome) == outcome \in {"ok", "copyErr"}

\* io.Copy(file, body) was reached and succeeded
renderPNGCopy(outcome) == outcome = "ok"

\* a worker's renderPNG(p) returns
RenderPNG(p) ==
    /\ rendering[p] > 0
    /\ rendering' = [rendering EXCEPT ![p] = @ - 1]
    /\ \E outcome \in RenderOutcomes :
          LET err == renderPNGErr(p, outcome) IN
          /\ fetched' = (fetched \/ renderPNGFetch(outcome))
          /\ rootExists' = (rootExists \/ renderPNGMkdir(outcome))
          /\ imgDirExists' = (imgDirExists \/ renderPNGMkdir(outcome))
          /\ imgFiles' = IF renderPNGCopy(outcome)
                         THEN imgFiles \cup {imgFileName(p)} ELSE imgFiles
          /\ imgPartial' = (imgPartial \/ (renderPNGCreate(outcome)
                                              /\ ~renderPNGCopy(outcome)))
          /\ IF err # Nil
             THEN /\ failed' = failed \cup {p}
                  /\ written' = written
                  /\ sending' = [sending EXCEPT ![p] = @ + 1]
                  /\ ranging' = ranging
             ELSE /\ written' = written \cup {p}
                  /\ failed' = failed
                  /\ sending' = sending
                  /\ ranging' = ranging + 1
    /\ inflight' = inflight - 1
    /\ UNCHANGED <<hpc, useXelatex, idsEmpty, remote, dash, writeups, dbCalls,
                   panels, enq, panelsClosed, spawned, errs, errsClosed,
                   wgCount, taken, texExists, texSections, pdfFile, calls,
                   results, cleanLogs, outPre, outFinal, genPdf, genErr,
                   opened, status, body, closeCalls, cleanCalls>>

\* an unbuffered error channel: make(chan error)
errsCapUnbuffered(n) == 0

\* errs := make(chan error, len(dash.Panels))
errsCap(n) == n

\* a worker that returns after reporting an error
workerAfterErrReturn == "return"

\* after errs <- err the worker goes on with the next job of the range loop
workerAfterErr == "range"

\* errs <- err: blocks while the buffer is full
SendErr(p) ==
    /\ sending[p] > 0
    /\ Len(errs) < errsCap(Len(dash))
    /\ errs' = Append(errs, Err("renderPNG", p, ""))
    /\ sending' = [sending EXCEPT ![p] = @ - 1]
    /\ IF workerAfterErr = "range"
       THEN /\ ranging' = ranging + 1
            /\ wgCount' = wgCount
       ELSE /\ ranging' = ranging
            /\ wgCount' = wgCount - 1
    /\ UNCHANGED <<hpc, useXelatex, idsEmpty, remote, dash, writeups, dbCalls,
                   panels, enq, panelsClosed, spawned, errsClosed, rendering,
                   inflight, taken, fetched, failed, written, rootExists,
                   imgDirExists, imgFiles, imgPartial, texExists, texSections,
                   pdfFile, calls, results, cleanLogs, outPre, outFinal,
                   genPdf, genErr, opened, status, body, closeCalls,
                   cleanCalls>>

\* a drain that keeps the error received last
firstErrLast(es) == IF es = <<>> THEN Nil ELSE es[Len(es)]

\* a drain that tests err == nil instead of err != nil
firstErrInverted(es) == Nil

\* for err := range errs { if err != nil { return err } }; return nil
firstErr(es) ==
    LET nonNil == {i \in DOMAIN es : es[i] # Nil} IN
    IF nonNil = {} THEN Nil
    ELSE es[CHOOSE i \in nonNil : \A j \in nonNil : i <= j]

\* if err != nil { return } after renderPNGsParallel
RenderChecked(err) == IF err # Nil THEN "return" ELSE "generateTeXFile"

\* a pool that does not wait for its workers
wgWaitSkipped(n) == TRUE

\* wg.Wait() returns once the counter is zero
wgWait(n) == n = 0

\* wg.Wait() returns; close(errs); the drain
PoolReturn ==
    /\ hpc = "wg.Wait"
    /\ wgWait(wgCount)
    /\ errsClosed' = TRUE
    /\ LET err == firstErr(errs) IN
          /\ results' = Append(results, Result(err))
          /\ IF RenderChecked(err) = "return"
             THEN Return(NilFile, Err("renderPNGsParallel", err.panel, ""))
             ELSE /\ hpc' = "generateTeXFile"
                  /\ UNCHANGED <<genPdf, genErr>>
    /\ UNCHANGED <<useXelatex, idsEmpty, remote, dash, writeups, dbCalls,
                   panels, enq, panelsClosed, spawned, errs, ranging,
                   rendering, sending, wgCount, inflight, taken, fetched,
                   failed, written, rootExists, imgDirExists, imgFiles,
                   imgPartial, texExists, texSections, pdfFile, calls,
                   cleanLogs, outPre, outFinal, opened, status, body,
                   closeCalls, cleanCalls>>


-----------------------------------------------------------------------------
(* Generate: assembly and compilation                                       *)

\* generateTeXFile: what it leaves on disk and what it returns, by the first
\* call that fails
TeXOutcomes == {"ok", "mkdirErr", "createErr", "parseErr", "executeErr"}

generateTeXFileErr(outcome) ==
    IF outcome = "ok" THEN Nil ELSE Err("generateTeXFile", 0, outcome)

\* if err != nil { return } after generateTeXFile
TeXChecked(err) == IF err # Nil THEN "return" ELSE "runLaTeX"

GenerateTeXFile ==
    /\ hpc = "generateTeXFile"
    /\ calls' = Append(calls, "generateTeXFile")
    /\ \E outcome \in TeXOutcomes :
          LET err == generateTeXFileErr(outcome) IN
          /\ results' = Append(results, Result(err))
          /\ rootExists' = (rootExists \/ outcome # "mkdirErr")
          /\ texExists' = (texExists \/ outcome \in {"ok", "parseErr", "executeErr"})
          /\ texSections' = writeups
          /\ IF TeXChecked(err) = "return"
             THEN Return(NilFile, err)
             ELSE /\ hpc' = "runLaTeX"
                  /\ UNCHANGED <<genPdf, genErr>>
    /\ UNCHANGED <<useXelatex, idsEmpty, remote, dash, writeups, dbCalls,
                   panels, enq, panelsClosed, spawned, errs, errsClosed,
                   ranging, rendering, sending, wgCount, inflight, taken,
                   fetched, failed, written, imgDirExists, imgFiles,
                   imgPartial, pdfFile, cleanLogs, outPre, outFinal, opened,
                   status, body, closeCalls, cleanCalls>>

\* the executables of the two passes, by toolchain
preCommand(xelatex) == IF xelatex THEN "xelatex -no-pdf" ELSE "pdflatex -draftmode"
finalCommand(xelatex) == IF xelatex THEN "xdvipdfmx" ELSE "pdflatex"

\* a first pass whose error is not looked at
PreCheckedIgnored(failedPre) == "final"

\* if errPre != nil { return nil, err }
PreChecked(failedPre) == IF failedPre THEN "return" ELSE "final"

\* the error of a failed pass carries its combined output
passErr(stage, out) == Err(stage, 0, out)

\* runLaTeX, first pass: cmdPre.CombinedOutput()
RunLaTeXPre ==
    /\ hpc = "runLaTeX"
    /\ calls' = Append(calls, preCommand(useXelatex))
    /\ \E exitZero \in BOOLEAN, out \in Outputs :
          /\ outPre' = out
          /\ results' = Append(results, IF exitZero THEN "ok" ELSE "err")
          /\ IF PreChecked(~exitZero) = "return"
             THEN Return(NilFile, passErr("runLaTeX pre", out))
             ELSE /\ hpc' = "runLaTeX final"
                  /\ UNCHANGED <<genPdf, genErr>>
    /\ UNCHANGED <<useXelatex, idsEmpty, remote, dash, writeups, dbCalls,
                   panels, enq, panelsClosed, spawned, errs, errsClosed,
                   ranging, rendering, sending, wgCount, inflight, taken,
                   fetched, failed, written, rootExists, imgDirExists,
                   imgFiles, imgPartial, texExists, texSections, pdfFile,
                   cleanLogs, outFinal, opened, status, body, closeCalls,
                   cleanCalls>>

\* a second pass whose error is not looked at
FinalCheckedIgnored(failedFinal) == "os.Open"

\* if err != nil { return nil, err }
FinalChecked(failedFinal) == IF failedFinal THEN "return" ELSE "os.Open"

\* runLaTeX, second pass: cmd.CombinedOutput(); a pass that exits with zero
\* has written the artifact, unless the tool misbehaved
RunLaTeXFinal ==
    /\ hpc = "runLaTeX final"
    /\ calls' = Append(calls, finalCommand(useXelatex))
    /\ \E exitZero \in BOOLEAN, out \in Outputs, bytes \in PdfBytes \cup {""} :
          /\ outFinal' = out
          /\ results' = Append(results, IF exitZero THEN "ok" ELSE "err")
          /\ pdfFile' = IF exitZero THEN bytes ELSE pdfFile
          /\ IF FinalChecked(~exitZero) = "return"
             THEN Return(NilFile, passErr("runLaTeX final", out))
             ELSE /\ hpc' = "os.Open"
                  /\ UNCHANGED <<genPdf, genErr>>
    /\ UNCHANGED <<useXelatex, idsEmpty, remote, dash, writeups, dbCalls,
                   panels, enq, panelsClosed, spawned, errs, errsClosed,
                   ranging, rendering, sending, wgCount, inflight, taken,
                   fetched, failed, written, rootExists, imgDirExists,
                   imgFiles, imgPartial, texExists, texSections, cleanLogs,
                   outPre, opened, status, body, closeCalls, cleanCalls>>

\* pdf, err = os.Open(rep.pdfPath()); return nil, err
\* (the opened file is dropped: the caller gets a nil *os.File)
runLaTeXReturn(file, err) == <<NilFile, err>>

\* os.Open fails when the artifact is missing, and may fail when it is there;
\* Generate hands runLaTeX's results to its caller
OpenPdf ==
    /\ hpc = "os.Open"
    /\ calls' = Append(calls, "os.Open")
    /\ \E ok \in BOOLEAN :
          LET success == ok /\ pdfFile # ""
              file == IF success THEN OpenFile(pdfFile) ELSE NilFile
              err == IF success THEN Nil ELSE Err("os.Open", 0, "")
              ret == runLaTeXReturn(file, err) IN
          /\ opened' = success
          /\ results' = Append(results, Result(err))
          /\ Return(ret[1], ret[2])
    /\ UNCHANGED <<useXelatex, idsEmpty, remote, dash, writeups, dbCalls,
                   panels, enq, panelsClosed, spawned, errs, errsClosed,
                   ranging, rendering, sending, wgCount, inflight, taken,
                   fetched, failed, written, rootExists, imgDirExists,
                   imgFiles, imgPartial, texExists, texSections, pdfFile,
                   cleanLogs, outPre, outFinal, status, body, closeCalls,
                   cleanCalls>>

-----------------------------------------------------------------------------
(* ServeHTTP around Generate, and Clean                                     *)

\* if err != nil { http.Error(w, err.Error(), 500); return }
\* defer rep.Clean(); defer file.Close()
GenerateChecked(err) == IF err # Nil THEN "done" ELSE "io.Copy"

ServeHTTPCheck ==
    /\ hpc = "GenerateReturned"
    /\ hpc' = GenerateChecked(genErr)
    /\ status' = IF GenerateChecked(genErr) = "done" THEN 500 ELSE status
    /\ UNCHANGED <<useXelatex, idsEmpty, remote, dash, writeups, dbCalls,
                   panels, enq, panelsClosed, spawned, errs, errsClosed,
                   ranging, rendering, sending, wgCount, inflight, taken,
                   fetched, failed, written, rootExists, imgDirExists,
                   imgFiles, imgPartial, texExists, texSections, pdfFile,
                   calls, results, cleanLogs, outPre, outFinal, genPdf,
                   genErr, opened, body, closeCalls, cleanCalls>>

\* io.Copy(w, file): reading a nil *os.File fails; the response writer may fail
IoCopy ==
    /\ hpc = "io.Copy"
    /\ \E ok \in BOOLEAN :
          IF genPdf.open /\ ok
          THEN /\ body' = genPdf.bytes
               /\ status' = 200
          ELSE /\ body' = body
               /\ status' = 500
    /\ hpc' = "file.Close"
    /\ UNCHANGED <<useXelatex, idsEmpty, remote, dash, writeups, dbCalls,
                   panels, enq, panelsClosed, spawned, errs, errsClosed,
                   ranging, rendering, sending, wgCount, inflight, taken,
                   fetched, failed, written, rootExists, imgDirExists,
                   imgFiles, imgPartial, texExists, texSections, pdfFile,
                   calls, results, cleanLogs, outPre, outFinal, genPdf,
                   genErr, opened, closeCalls, cleanCalls>>

\* deferred file.Close()
FileClose ==
    /\ hpc = "file.Close"
    /\ closeCalls' = closeCalls + 1
    /\ hpc' = "rep.Clean"
    /\ UNCHANGED <<useXelatex, idsEmpty, remote, dash, writeups, dbCalls,
                   panels, enq, panelsClosed, spawned, errs, errsClosed,
                   ranging, rendering, sending, wgCount, inflight, taken,
                   fetched, failed, written, rootExists, imgDirExists,
                   imgFiles, imgPartial, texExists, texSections, pdfFile,
                   calls, results, cleanLogs, outPre, outFinal, genPdf,
                   genErr, opened, status, body, cleanCalls>>

\* what os.RemoveAll can do to a tree that exists: delete it, fail before
\* deleting anything, or fail after deleting the files and leaving the
\* directories
RemoveOutcomes == {"removed", "failed", "failedPartly"}

\* a removal of the image directory alone: os.RemoveAll(rep.imgDirPath())
RemoveAllImages(outcome) ==
    /\ rootExists' = rootExists
    /\ imgDirExists' = (imgDirExists /\ outcome # "removed")
    /\ imgFiles' = IF outcome = "failed" THEN imgFiles ELSE {}
    /\ imgPartial' = (imgPartial /\ outcome = "failed")
    /\ texExists' = texExists
    /\ pdfFile' = pdfFile

\* os.RemoveAll(rep.tmpDir)
RemoveAll(outcome) ==
    /\ rootExists' = (rootExists /\ outcome # "removed")
    /\ imgDirExists' = (imgDirExists /\ outcome # "removed")
    /\ imgFiles' = IF outcome = "failed" THEN imgFiles ELSE {}
    /\ imgPartial' = (imgPartial /\ outcome = "failed")
    /\ texExists' = (texExists /\ outcome = "failed")
    /\ pdfFile' = IF outcome = "failed" THEN pdfFile ELSE ""

\* Clean: err := os.RemoveAll(rep.tmpDir); an error is logged and not
\* returned.  RemoveAll of a path that does not exist returns nil
Clean ==
    /\ cleanCalls' = cleanCalls + 1
    /\ \E outcome \in RemoveOutcomes :
          /\ ~rootExists => outcome = "removed"
          /\ RemoveAll(outcome)
          /\ cleanLogs' = IF outcome = "removed" THEN cleanLogs
                          ELSE cleanLogs + 1

\* deferred rep.Clean()
DeferredClean ==
    /\ hpc = "rep.Clean"
    /\ Clean
    /\ hpc' = "done"
    /\ UNCHANGED <<useXelatex, idsEmpty, remote, dash, writeups, dbCalls,
                   panels, enq, panelsClosed, spawned, errs, errsClosed,
                   ranging, rendering, sending, wgCount, inflight, taken,
                   fetched, failed, written, texSections, calls, results,
                   outPre, outFinal, genPdf, genErr, opened, status, body,
                   closeCalls>>

\* A caller of the Report interface other than ServeHTTP: it may call Clean
\* on a report whose Generate it never called, and after the request ended
\* (Generate failed, or the report was served and cleaned)
CallerClean ==
    /\ hpc \in {"GetDashboard", "done"}
    /\ cleanCalls < MaxCleanCalls
    /\ Clean
    /\ hpc' = "done"
    /\ UNCHANGED <<useXelatex, idsEmpty, remote, dash, writeups, dbCalls,
                   panels, enq, panelsClosed, spawned, errs, errsClosed,
                   ranging, rendering, sending, wgCount, inflight, taken,
                   fetched, failed, written, texSections, calls, results,
                   outPre, outFinal, genPdf, genErr, opened, status, body,
                   closeCalls>>

\* the worker goroutines are anonymous and alike: the pool's state is how
\* many of them stand at each position
Worker ==
    \/ Receive
    \/ WorkerExit
    \/ \E p \in PanelIds : RenderPNG(p)
    \/ \E p \in PanelIds : SendErr(p)

Main ==
    \/ GetDashboard
    \/ GetWriteup
    \/ MakePanels
    \/ Enqueue
    \/ ClosePanels
    \/ StartPool
    \/ PoolReturn
    \/ GenerateTeXFile
    \/ RunLaTeXPre
    \/ RunLaTeXFinal
    \/ OpenPdf
    \/ ServeHTTPCheck
    \/ IoCopy
    \/ FileClose
    \/ DeferredClean

Next == Main \/ Worker

Spec == Init /\ [][Next]_vars

SpecWide == InitWide /\ [][Next]_vars

\* The scheduler runs every goroutine that can take a step, and every call
\* to a collaborator returns: the request's goroutine and the workers each
\* take a step when they can.
SpecWideFair == SpecWide /\ WF_vars(Main) /\ WF_vars(Worker)

NextAPI == Next \/ CallerClean

SpecAPI == Init /\ [][NextAPI]_vars

-----------------------------------------------------------------------------
(* Properties                                                               *)

InCalls(stage) == \E i \in DOMAIN calls : calls[i] = stage

\* the request's goroutine is inside renderPNGsParallel
InPool == hpc \in {"panels <- p", "go", "wg.Wait"}

\* renderPNGsParallel was called and has returned
PoolReturned == InCalls("renderPNGsParallel") /\ ~InPool

\* how many errors of panel p the error channel holds
ErrCount(p) == Cardinality({i \in DOMAIN errs : errs[i].panel = p})

\* C1: when Generate returns a nil error, the caller holds an open handle
\* on the artifact whose contents are the artifact's bytes.
C1_HandleOnSuccess ==
    (hpc = "GenerateReturned" /\ genErr = Nil) =>
        (genPdf.open /\ genPdf.bytes = pdfFile)

\* C2: once a panel's fetch or file write has failed, renderPNGsParallel
\* returns a non-nil error, Generate returns it, and neither generateTeXFile
\* nor a compiler pass is ever invoked.
C2_NoAssemblyOnPartialImages ==
    failed # {} =>
        /\ ~InCalls("generateTeXFile")
        /\ ~InCalls(preCommand(useXelatex))
        /\ ~InCalls(finalCommand(useXelatex))
        /\ ~InPool =>
              /\ results[Len(results)] = "err"
              /\ genErr.stage = "renderPNGsParallel"

C2_Witness ==
    /\ hpc = "GenerateReturned"
    /\ failed # {}
    /\ written # {}
    /\ Len(dash) > workers

\* C3: when renderPNGsParallel has returned and no renderPNG call failed,
\* it returned nil and the image directory holds exactly one file
\* image<id>.png per panel, N in all.
C3_AllImagesWritten ==
    (PoolReturned /\ failed = {}) =>
        /\ results[3] = "ok"
        /\ hpc = "generateTeXFile" =>
              /\ imgFiles = {imgFileName(dash[i]) : i \in DOMAIN dash}
              /\ Cardinality(imgFiles) = Len(dash)
              /\ ~imgPartial

C3_Witness ==
    /\ hpc = "generateTeXFile"
    /\ Len(dash) = workers + 1
    /\ Cardinality(imgFiles) = workers + 1

\* C4: at most 5 renderPNG calls are in flight at the same time.
C4_WorkerBound == inflight <= 5

C4_Witness == inflight = 5 /\ panels # <<>>

\* C5: when renderPNGsParallel has returned, every panel was received
\* exactly once and has exactly one outcome: its image was written and no
\* error was sent for it, or it failed and exactly one error was sent for
\* it; the errors collected are as many as the panels that failed.
C5_ExactlyOneOutcome ==
    PoolReturned =>
        /\ \A i \in DOMAIN dash :
              LET p == dash[i] IN
              /\ taken[p] = 1
              /\ \/ p \in written /\ p \notin failed /\ ErrCount(p) = 0
                 \/ p \in failed /\ p \notin written /\ ErrCount(p) = 1
              /\ hpc \in {"generateTeXFile", "GenerateReturned"} =>
                    (imgFileName(p) \in imgFiles <=> p \in written)
        /\ Len(errs) = Cardinality(failed)

C5_Witness ==
    /\ PoolReturned
    /\ failed # {}
    /\ written # {}
    /\ Len(dash) = workers + 1

\* every worker has returned: none is at the range loop, inside renderPNG
\* or at the send, and the WaitGroup counter is zero
AllWorkersExited ==
    /\ wgCount = 0
    /\ ranging = 0
    /\ inflight = 0
    /\ \A p \in PanelIds : rendering[p] = 0 /\ sending[p] = 0

\* C6: once renderPNGsParallel waits on the WaitGroup, eventually all
\* workers have exited and the wait has returned.
C6_PoolTerminates ==
    (hpc = "wg.Wait") ~> (hpc # "wg.Wait" /\ AllWorkersExited)

C6_Witness ==
    /\ PoolReturned
    /\ AllWorkersExited
    /\ Len(dash) = workers + 1
    /\ failed = PanelIds
    /\ Len(errs) = Len(dash)

\* C7: when the first compiler pass exits non-zero, in either toolchain,
\* the second pass is never invoked, the artifact is never opened, and
\* Generate returns an error that carries the first pass's combined output.
C7_FirstPassFailureStops ==
    (Len(results) >= 5 /\ results[5] = "err") =>
        /\ calls[5] = preCommand(useXelatex)
        /\ ~InCalls(finalCommand(useXelatex))
        /\ ~InCalls("os.Open")
        /\ ~opened
        /\ hpc \in {"GenerateReturned", "done"}
        /\ genErr # Nil
        /\ genErr.detail = outPre
        /\ outPre \in Outputs

C7_Witness ==
    /\ Len(results) = 5
    /\ results[5] = "err"
    /\ useXelatex
    /\ hpc = "GenerateReturned"

\* C8: when the request has ended, Clean was called exactly once.
C8_CleanedExactlyOnce == hpc = "done" => cleanCalls = 1

\* the workspace: nothing of it exists
NoWorkspace ==
    /\ ~rootExists
    /\ ~imgDirExists
    /\ imgFiles = {}
    /\ ~imgPartial
    /\ ~texExists
    /\ pdfFile = ""

CleanStep == cleanCalls' = cleanCalls + 1

\* C9 as stated: after every call of Clean the workspace root does not
\* exist.
C9_CleanAlwaysRemoves == [][CleanStep => ~rootExists']_vars

\* C9: a call of Clean never changes what Generate returned or what was
\* answered; when os.RemoveAll did not fail (nothing was logged) nothing of
\* the workspace exists afterwards; when it failed the root is still there;
\* and a call made when the root does not exist changes nothing.
C9_CleanTotalIdempotent ==
    [][CleanStep =>
          /\ UNCHANGED <<genPdf, genErr, status, body>>
          /\ hpc' = "done"
          /\ cleanLogs' = cleanLogs => NoWorkspace'
          /\ cleanLogs' # cleanLogs => rootExists /\ rootExists'
          /\ ~rootExists =>
                UNCHANGED <<rootExists, imgDirExists, imgFiles, imgPartial,
                            texExists, pdfFile, cleanLogs>>]_vars

C9_Witness ==
    /\ cleanCalls = 2
    /\ cleanLogs = 0
    /\ written # {}
    /\ genErr # Nil
    /\ NoWorkspace

\* the stages of Generate, in the order of its code
StageOrder ==
    <<"GetDashboard", "GetWriteup", "renderPNGsParallel", "generateTeXFile",
      preCommand(useXelatex), finalCommand(useXelatex), "os.Open">>

\* C10: the stages invoked are a prefix of the fixed order, each at most
\* once; only the last stage invoked can be running or have failed; and
\* when a stage has failed, Generate has returned a non-nil error with no
\* later stage invoked.
C10_StagesInOrder ==
    /\ Len(calls) <= Len(StageOrder)
    /\ calls = SubSeq(StageOrder, 1, Len(calls))
    /\ Len(results) \in {Len(calls), Len(calls) - 1}
    /\ Len(results) < Len(calls) => InPool
    /\ \A i \in DOMAIN results :
          results[i] = "err" =>
              /\ i = Len(calls)
              /\ hpc \in {"GenerateReturned", "done"}
              /\ genErr # Nil

C10_Witness ==
    /\ Len(calls) = 7
    /\ results[7] = "err"
    /\ hpc = "GenerateReturned"

\* C11 as stated: for a dashboard without panels renderPNGsParallel writes
\* no file, returns no error and starts no worker goroutine.
C11_EmptyStartsNoWorker ==
    (InCalls("renderPNGsParallel") /\ Len(dash) = 0) =>
        /\ spawned = 0
        /\ imgFiles = {} /\ ~imgPartial /\ ~imgDirExists
        /\ PoolReturned => results[3] = "ok"

\* C11: for a dashboard without panels renderPNGsParallel writes no file
\* and returns no error; its 5 workers are started all the same, none of
\* them enters renderPNG, and all of them have exited when it returns.
C11_EmptyStartsIdleWorkers ==
    (InCalls("renderPNGsParallel") /\ Len(dash) = 0) =>
        /\ imgFiles = {} /\ ~imgPartial /\ ~imgDirExists
        /\ inflight = 0 /\ ~fetched
        /\ hpc = "wg.Wait" => spawned = 5 /\ ranging = wgCount
        /\ PoolReturned =>
              /\ spawned = 5
              /\ AllWorkersExited
              /\ errs = <<>>
              /\ results[3] = "ok"

C11_Witness ==
    /\ Len(dash) = 0
    /\ hpc = "generateTeXFile"
    /\ spawned = 5
    /\ errsClosed

\* C12: when the list of narrative ids is empty, no connection to the
\* narrative database is ever opened, GetWriteup returns no section and a
\* nil error, and generateTeXFile is given a writeup of zero sections.
C12_NoIdsNoNarrative ==
    idsEmpty =>
        /\ dbCalls = 0
        /\ writeups = 0
        /\ Len(results) >= 2 => results[2] = "ok"
        /\ genErr.stage # "writeup"
        /\ InCalls("generateTeXFile") => texSections = 0

C12_Witness ==
    /\ idsEmpty
    /\ hpc = "runLaTeX"
    /\ results[2] = "ok"
    /\ texExists
    /\ texSections = 0

\* C13: when Generate returned a nil error ServeHTTP holds the open handle
\* on the artifact; the handle is read to the end into the response, then
\* it is closed, and only then Clean runs: Close is not called before the
\* copy has ended, and Clean is not called before Close.
C13_ReadCloseClean ==
    /\ hpc \in {"io.Copy", "file.Close", "rep.Clean"} =>
          /\ genErr = Nil
          /\ genPdf.open
    /\ status = 200 => body = genPdf.bytes /\ body = pdfFile
    /\ closeCalls > 0 =>
          /\ closeCalls = 1
          /\ hpc \in {"rep.Clean", "done"}
          /\ status # 0
    /\ cleanCalls > 0 =>
          /\ closeCalls = 1
          /\ hpc = "done"

\* how often Generate invoked a stage
CallCount(stage) == Cardinality({i \in DOMAIN calls : calls[i] = stage})

\* C14: each compiler pass is invoked at most once; when the second pass
\* failed, Generate has returned a non-nil error that carries the combined
\* output of that pass, with no handle, and the artifact was not opened;
\* the artifact is opened only after both passes exited with zero.
C14_PassesOnceNoRetry ==
    /\ CallCount(preCommand(useXelatex)) <= 1
    /\ CallCount(finalCommand(useXelatex)) <= 1
    /\ (Len(results) >= 6 /\ results[6] = "err") =>
          /\ hpc \in {"GenerateReturned", "done"}
          /\ genErr = passErr("runLaTeX final", outFinal)
          /\ genErr # Nil
          /\ ~genPdf.open
          /\ ~InCalls("os.Open")
          /\ ~opened
    /\ InCalls("os.Open") =>
          /\ results[5] = "ok"
          /\ results[6] = "ok"

C14_Witness ==
    /\ hpc = "GenerateReturned"
    /\ Len(results) = 6
    /\ results[6] = "err"
    /\ outFinal # outPre
    /\ genErr.detail = outFinal

RECURSIVE SumOver(_, _)
SumOver(f, S) ==
    IF S = {} THEN 0
    ELSE LET x == CHOOSE y \in S : TRUE IN f[x] + SumOver(f, S \ {x})

\* the workers that were started and have not returned
LiveWorkers == ranging + SumOver(rendering, PanelIds) + SumOver(sending, PanelIds)

\* the producer of the job channel and the start of the workers, state by
\* state
ProducerThenWorkers ==
    /\ Len(panels) <= Len(dash)
    /\ hpc = "panels <- p" =>
          /\ ENABLED (Enqueue \/ ClosePanels)
          /\ panels = SubSeq(dash, 1, enq)
          /\ spawned = 0
    /\ spawned \in {0, 5}
    /\ spawned > 0 => panelsClosed /\ enq = Len(dash)
    /\ hpc = "wg.Wait" => LiveWorkers = wgCount
    /\ PoolReturned => panels = <<>>

\* the step that starts the workers, and the steps in which a worker returns
StartAndExitSteps ==
    /\ spawned' # spawned =>
          /\ panels = dash
          /\ panelsClosed
          /\ spawned' = 5
          /\ wgCount' = 5
    /\ wgCount' < wgCount => panels = <<>> /\ panelsClosed

\* C15: every panel is on the job channel and the channel is closed before
\* a worker is started; the producer can always take its next step, it is
\* never blocked on a full buffer; exactly 5 workers are started, and a
\* worker returns only when the job channel is closed and empty.
C15_EnqueueCloseThenFiveWorkers ==
    []ProducerThenWorkers /\ [][StartAndExitSteps]_vars

C15_Witness ==
    /\ hpc = "wg.Wait"
    /\ spawned = 5
    /\ panelsClosed
    /\ Len(panels) = workers + 1
    /\ LiveWorkers = 5

\* C16: when renderPNGsParallel has returned and a panel failed, the error
\* it returned is the one sent first on the error channel, it is the error
\* of a panel whose renderPNG failed, and at that time every worker had
\* returned and the error channel was closed.
C16_FirstSentErrorReturned ==
    (PoolReturned /\ failed # {}) =>
        /\ errs # <<>>
        /\ genErr.stage = "renderPNGsParallel"
        /\ genErr.panel = Head(errs).panel
        /\ genErr.panel \in failed
        /\ AllWorkersExited
        /\ errsClosed

\* the error returned is the one sent first although a panel that comes
\* earlier in the dashboard failed as well
C16_Witness ==
    /\ hpc = "GenerateReturned"
    /\ Len(errs) >= 2
    /\ genErr.panel = errs[1].panel
    /\ errs[2].panel < errs[1].panel
    /\ Len(dash) = workers + 1

\* the panels whose image goes to the file name of panel p
SameFile(p) == {q \in PanelIds : imgFileName(q) = imgFileName(p)}

\* C17: for every image file name, at most one renderPNG execution ever
\* targets it, so no two executions, at the same time or one after the
\* other, create or write the same file.
C17_NoFileWrittenTwice ==
    \A p \in PanelIds :
        /\ SumOver(taken, SameFile(p)) <= 1
        /\ SumOver(rendering, SameFile(p)) <= 1

C17_Witness ==
    /\ hpc = "wg.Wait"
    /\ inflight >= 2
    /\ Cardinality(imgFiles) >= 2
    /\ \A p \in PanelIds : taken[p] = 1

\* C18: something of the workspace exists only after a panel fetch
\* succeeded or generateTeXFile was called; so when Generate failed at the
\* dashboard fetch or at the narrative fetch, or the pool returned with no
\* panel fetched (every fetch failed), nothing of the workspace exists.
C18_WorkspaceLazy ==
    /\ ~NoWorkspace => (fetched \/ InCalls("generateTeXFile"))
    /\ genErr.stage \in {"dashboard", "writeup"} => NoWorkspace
    /\ (PoolReturned /\ ~fetched /\ Len(dash) >= 1) =>
          /\ failed = PanelIds
          /\ genErr.stage = "renderPNGsParallel"
          /\ NoWorkspace

C18_Witness ==
    /\ hpc = "GenerateReturned"
    /\ Len(dash) >= 2
    /\ ~fetched
    /\ failed = PanelIds
    /\ genErr.stage = "renderPNGsParallel"
    /\ ~rootExists

\* C19: the error channel never holds more errors than there are panels;
\* it is closed only when all 5 workers have returned; and a worker that
\* stands at its send finds the channel open and with room, so its send
\* neither panics nor blocks.
C19_ErrChannelSafe ==
    /\ Len(errs) <= Len(dash)
    /\ errsClosed =>
          /\ spawned = 5
          /\ AllWorkersExited
    /\ \A p \in PanelIds :
          sending[p] > 0 =>
              /\ ~errsClosed
              /\ Len(errs) < Len(dash)
              /\ ENABLED SendErr(p)

\* the last of six failed panels is about to be reported: one slot is left
C19_Witness ==
    /\ hpc = "wg.Wait"
    /\ Len(dash) = workers + 1
    /\ Len(errs) = workers
    /\ SumOver(sending, PanelIds) = 1
    /\ ~errsClosed

====
